---- MODULE Spec2Model ----
(***************************************************************************)
(* Model of packages/remix-server-runtime/data.ts: callRouteAction,        *)
(* callRouteLoader, stripIndexParam, stripDataParam and extractData.       *)
(*                                                                         *)
(* Request and Response objects live in `heap` (a sequence; a reference is *)
(* an index into it), so that "the same object" and "mutated in place" are *)
(* things the model can tell apart.  A URL's query string is kept in its   *)
(* raw form (a sequence of "name=value" segments, still percent-encoded);  *)
(* url.searchParams is the decoded list of name/value pairs.               *)
(***************************************************************************)
EXTENDS Integers, Sequences, FiniteSets, TLC

VARIABLES heap, request, route, loadContext, params, call, extraction

vars == <<heap, request, route, loadContext, params, call, extraction>>

\* ---------------------------------------------------------------- bounds

\* Longest query string (in "&"-separated segments) of an incoming request.
MaxParams == 3

\* Longest Content-Type header value (in chunks) handed to extractData.
MaxChunks == 3

\* ---------------------------------------------------------------- values

Undefined == [kind |-> "undefined"]

Null == [kind |-> "null"]

\* A JavaScript Error object; message is the list of the template's pieces,
\* literal text and interpolated values.
ErrorValue(message) == [kind |-> "error", message |-> message]

Lit(text) == [lit |-> text]

\* A reference to a Response object of the heap.
ResponseRef(ref) == [kind |-> "response", ref |-> ref]

\* isResponse(value) of ./responses: a non-null value shaped like a Response.
isResponse(value) == value.kind = "response"

RedirectStatusCodes == {301, 302, 303, 307, 308}

\* isRedirectResponse(response) of ./responses, on the Response object.
isRedirectResponse(response) == response.status \in RedirectStatusCodes

\* A Response body: null, or a stream of the given text.
NullBody == [null |-> TRUE, text |-> <<>>]

Body(text) == [null |-> FALSE, text |-> text]

\* new Response(body, { status, headers })
NewResponse(body, status, headers) ==
  [type |-> "Response", status |-> status, headers |-> headers, body |-> body]

\* Headers.get(name): the value, or null when the header is absent.  A header
\* value is a string, kept as the sequence of the chunks it is made of.
HeadersGet(headers, name) ==
  IF \E h \in headers : h[1] = name
  THEN [null |-> FALSE, value |-> (CHOOSE h \in headers : h[1] = name)[2]]
  ELSE [null |-> TRUE, value |-> <<>>]

\* Headers.set(name, value): replaces every value of that header.
HeadersSet(headers, name, value) ==
  {h \in headers : h[1] # name} \cup {<<name, value>>}

\* JSON.stringify of a handler's value.
JSONStringify(value) ==
  IF value.kind = "null" THEN <<"null">> ELSE <<"\"", value.data, "\"">>

\* json(data) of ./responses: a 200 Response carrying the serialized data.
json(data) ==
  NewResponse(Body(JSONStringify(data)), 200,
              {<<"Content-Type", <<"application/json", "; charset=utf-8">>>>})

\* ---------------------------------------------------------------- URLs

\* A raw query segment as it stands between two "&" of the URL.
Segment(name, eq, value) == [name |-> name, eq |-> eq, value |-> value]

\* Percent-decoding of application/x-www-form-urlencoded text.
PercentDecode(s) ==
  CASE s = "a%20b" -> "a b"
    [] s = "a+b" -> "a b"
    [] s = "routes%2Fa" -> "routes/a"
    [] OTHER -> s

\* The application/x-www-form-urlencoded byte serializer.
PercentEncode(s) ==
  CASE s = "a b" -> "a+b"
    [] s = "routes/a" -> "routes%2Fa"
    [] OTHER -> s

\* new URL(href).searchParams: the decoded name/value pairs of the query.
RECURSIVE ParseQuery(_)
ParseQuery(query) ==
  IF query = <<>> THEN <<>>
  ELSE LET s == Head(query)
       IN IF s.name = "" /\ ~s.eq
          THEN ParseQuery(Tail(query))
          ELSE <<<<PercentDecode(s.name), PercentDecode(s.value)>>>>
                 \o ParseQuery(Tail(query))

\* The query url.href carries once url.searchParams has been updated.
SerializeQuery(searchParams) ==
  [i \in 1..Len(searchParams) |->
     Segment(PercentEncode(searchParams[i][1]), TRUE,
             PercentEncode(searchParams[i][2]))]

\* new URL(href)
NewURL(href) == [base |-> href.base, searchParams |-> ParseQuery(href.query)]

\* url.href
Href(url) == [base |-> url.base, query |-> SerializeQuery(url.searchParams)]

RECURSIVE SelectPairs(_, _, _)
SelectPairs(searchParams, name, keep) ==
  IF searchParams = <<>> THEN <<>>
  ELSE LET rest == SelectPairs(Tail(searchParams), name, keep)
       IN IF (Head(searchParams)[1] = name) = keep
          THEN <<Head(searchParams)>> \o rest
          ELSE rest

\* url.searchParams.getAll(name)
GetAll(searchParams, name) ==
  LET found == SelectPairs(searchParams, name, TRUE)
  IN [i \in 1..Len(found) |-> found[i][2]]

\* url.searchParams.delete(name)
Delete(searchParams, name) == SelectPairs(searchParams, name, FALSE)

\* new Request(url, init): a new object; method and the rest come from init.
NewRequest(href, init) == [type |-> "Request", url |-> href, method |-> init.method]

\* ---------------------------------------------------------------- data.ts

\* Mutant: the `if (indexValue)` test is gone, every `index` value is kept.
stripIndexParamKeepsEmpty(h, r) ==
  LET url == NewURL(h[r].url)
      indexValues == GetAll(url.searchParams, "index")
      deleted == Delete(url.searchParams, "index")
      appended == deleted \o [i \in 1..Len(indexValues) |-> <<"index", indexValues[i]>>]
      stripped == [url EXCEPT !.searchParams = appended]
  IN [heap |-> Append(h, NewRequest(Href(stripped), h[r])), ref |-> Len(h) + 1]

\* Mutant: the caller's Request is rewritten in place instead of copied.
stripIndexParamInPlace(h, r) ==
  LET url == NewURL(h[r].url)
      indexValues == GetAll(url.searchParams, "index")
      deleted == Delete(url.searchParams, "index")
      indexValuesToKeep == SelectSeq(indexValues, LAMBDA indexValue : indexValue # "")
      appended == deleted \o [i \in 1..Len(indexValuesToKeep) |->
                                <<"index", indexValuesToKeep[i]>>]
      stripped == [url EXCEPT !.searchParams = appended]
  IN [heap |-> [h EXCEPT ![r].url = Href(stripped)], ref |-> r]

\* stripIndexParam(request): a new Request whose URL has lost the empty
\* `index` parameters; the non-empty ones move to the end of the query.
stripIndexParam(h, r) ==
  LET url == NewURL(h[r].url)
      indexValues == GetAll(url.searchParams, "index")
      deleted == Delete(url.searchParams, "index")
      indexValuesToKeep == SelectSeq(indexValues, LAMBDA indexValue : indexValue # "")
      appended == deleted \o [i \in 1..Len(indexValuesToKeep) |->
                                <<"index", indexValuesToKeep[i]>>]
      stripped == [url EXCEPT !.searchParams = appended]
  IN [heap |-> Append(h, NewRequest(Href(stripped), h[r])), ref |-> Len(h) + 1]

\* stripDataParam(request): a new Request whose URL has lost `_data`.
stripDataParam(h, r) ==
  LET url == NewURL(h[r].url)
      stripped == [url EXCEPT !.searchParams = Delete(@, "_data")]
  IN [heap |-> Append(h, NewRequest(Href(stripped), h[r])), ref |-> Len(h) + 1]

\* The arguments callRouteAction hands to the action.
ActionArgs(h, r, context, ps) ==
  LET noIndex == stripIndexParam(h, r)
      noData == stripDataParam(noIndex.heap, noIndex.ref)
  IN [heap |-> noData.heap,
      args |-> [request |-> noData.ref, context |-> context, params |-> ps]]

\* Mutant: the loader's request keeps its `_data` parameter.
LoaderArgsKeepsData(h, r, context, ps) ==
  LET noIndex == stripIndexParam(h, r)
  IN [heap |-> noIndex.heap,
      args |-> [request |-> noIndex.ref, context |-> context, params |-> ps]]

\* The arguments callRouteLoader hands to the loader.
LoaderArgs(h, r, context, ps) ==
  LET noIndex == stripIndexParam(h, r)
      noData == stripDataParam(noIndex.heap, noIndex.ref)
  IN [heap |-> noData.heap,
      args |-> [request |-> noData.ref, context |-> context, params |-> ps]]

\* The route's handler settles: it returns or throws its value; a Response
\* it produces is a new object.
RunHandler(h, handler) ==
  IF handler.value.kind = "new-response"
  THEN [heap |-> Append(h, handler.value.response), mode |-> handler.mode,
        value |-> ResponseRef(Len(h) + 1)]
  ELSE [heap |-> h, mode |-> handler.mode, value |-> handler.value]

Return(h, value) == [heap |-> h, outcome |-> [kind |-> "return", value |-> value]]

Throw(h, value) == [heap |-> h, outcome |-> [kind |-> "throw", value |-> value]]

\* Mutant: the 405 response is not marked as caught.
ActionMissingNoCatch(h) ==
  Return(Append(h, NewResponse(NullBody, 405, {})), ResponseRef(Len(h) + 1))

\* callRouteAction when route.module.action is missing.
ActionMissing(h) ==
  LET response == NewResponse(NullBody, 405, {})
      caught == [response EXCEPT !.headers = HeadersSet(@, "X-Remix-Catch", <<"yes">>)]
  IN Return(Append(h, caught), ResponseRef(Len(h) + 1))

\* Mutant: `result == undefined`, which null satisfies too.
ActionResultLooseUndefined(h, result, id) ==
  IF result = Undefined \/ result = Null
  THEN Throw(h, ErrorValue(<<Lit("You defined an action for route \""), [id |-> id],
                            Lit("\" but didn't return anything from your action function. Please return a value or null.")>>))
  ELSE IF isResponse(result)
       THEN Return(h, result)
       ELSE Return(Append(h, json(result)), ResponseRef(Len(h) + 1))

\* callRouteAction from `if (result === undefined)` on.
ActionResult(h, result, id) ==
  IF result = Undefined
  THEN Throw(h, ErrorValue(<<Lit("You defined an action for route \""), [id |-> id],
                            Lit("\" but didn't return anything from your action function. Please return a value or null.")>>))
  ELSE IF isResponse(result)
       THEN Return(h, result)
       ELSE Return(Append(h, json(result)), ResponseRef(Len(h) + 1))

\* Mutant: X-Remix-Catch is set before the redirect test, on every thrown
\* Response.
ActionSettledCatchesRedirect(h, settled, id) ==
  IF settled.mode = "throw"
  THEN IF ~isResponse(settled.value)
       THEN Throw(h, settled.value)
       ELSE LET caught == [h EXCEPT ![settled.value.ref].headers =
                                      HeadersSet(@, "X-Remix-Catch", <<"yes">>)]
            IN IF ~isRedirectResponse(h[settled.value.ref])
               THEN Throw(caught, settled.value)
               ELSE ActionResult(caught, settled.value, id)
  ELSE ActionResult(h, settled.value, id)

\* callRouteAction once the awaited action has settled: the catch block, then
\* the result.
ActionSettled(h, settled, id) ==
  IF settled.mode = "throw"
  THEN IF ~isResponse(settled.value)
       THEN Throw(h, settled.value)
       ELSE IF ~isRedirectResponse(h[settled.value.ref])
            THEN Throw([h EXCEPT ![settled.value.ref].headers =
                                   HeadersSet(@, "X-Remix-Catch", <<"yes">>)],
                       settled.value)
            ELSE ActionResult(h, settled.value, id)
  ELSE ActionResult(h, settled.value, id)

\* Mutant: a missing loader answers 405 as a missing action does.
LoaderMissingAs405(h, r, id) ==
  LET response == NewResponse(NullBody, 405, {})
      caught == [response EXCEPT !.headers = HeadersSet(@, "X-Remix-Catch", <<"yes">>)]
  IN Return(Append(h, caught), ResponseRef(Len(h) + 1))

\* callRouteLoader when route.module.loader is missing.
LoaderMissing(h, r, id) ==
  Throw(h, ErrorValue(<<Lit("You made a "), [method |-> h[r].method],
                        Lit(" request to "), [url |-> h[r].url],
                        Lit(" but did not provide a default component or loader for route \""),
                        [id |-> id], Lit("\", so there is no way to handle the request.")>>))

\* Mutant: no test for undefined; json(undefined) is a Response without body.
LoaderResultNoUndefinedCheck(h, result, id) ==
  IF isResponse(result)
  THEN Return(h, result)
  ELSE IF result = Undefined
       THEN Return(Append(h, NewResponse(NullBody, 200,
                      {<<"Content-Type", <<"application/json", "; charset=utf-8">>>>})),
                   ResponseRef(Len(h) + 1))
       ELSE Return(Append(h, json(result)), ResponseRef(Len(h) + 1))

\* callRouteLoader from `if (result === undefined)` on.
LoaderResult(h, result, id) ==
  IF result = Undefined
  THEN Throw(h, ErrorValue(<<Lit("You defined a loader for route \""), [id |-> id],
                            Lit("\" but didn't return anything from your loader function. Please return a value or null.")>>))
  ELSE IF isResponse(result)
       THEN Return(h, result)
       ELSE Return(Append(h, json(result)), ResponseRef(Len(h) + 1))

\* Mutant: a thrown Response that is no redirect is rethrown unmarked.
LoaderSettledNoCatchHeader(h, settled, id) ==
  IF settled.mode = "throw"
  THEN IF ~isResponse(settled.value)
       THEN Throw(h, settled.value)
       ELSE IF ~isRedirectResponse(h[settled.value.ref])
            THEN Throw(h, settled.value)
            ELSE LoaderResult(h, settled.value, id)
  ELSE LoaderResult(h, settled.value, id)

\* callRouteLoader once the awaited loader has settled.
LoaderSettled(h, settled, id) ==
  IF settled.mode = "throw"
  THEN IF ~isResponse(settled.value)
       THEN Throw(h, settled.value)
       ELSE IF ~isRedirectResponse(h[settled.value.ref])
            THEN Throw([h EXCEPT ![settled.value.ref].headers =
                                   HeadersSet(@, "X-Remix-Catch", <<"yes">>)],
                       settled.value)
            ELSE LoaderResult(h, settled.value, id)
  ELSE LoaderResult(h, settled.value, id)

\* ---------------------------------------------------------------- extractData

\* A header value is a sequence of chunks of text; the pattern's literal can
\* only match the chunk "application/json" (the pattern has no i flag), and
\* \b asks for the neighbouring character: whether a chunk starts, and
\* whether it ends, with a word character (\w).
StartsWithWordChar(chunk) ==
  chunk \in {"application/json", "APPLICATION/JSON", "p", "text/"}

EndsWithWordChar(chunk) ==
  chunk \in {"application/json", "APPLICATION/JSON", "p", "; charset=utf-8"}

\* Mutant: the pattern without its word boundaries.
RegexTestNoBoundary(contentType) ==
  \E i \in 1..Len(contentType) : contentType[i] = "application/json"

\* /\bapplication\/json\b/.test(contentType): the literal at some position,
\* with a word boundary on either side of it.
RegexTest(contentType) ==
  \E i \in 1..Len(contentType) :
    /\ contentType[i] = "application/json"
    /\ (i = 1 \/ ~EndsWithWordChar(contentType[i - 1]))
    /\ (i = Len(contentType) \/ ~StartsWithWordChar(contentType[i + 1]))

\* JSON.parse of a body text.
JSONParse(text) ==
  IF text = <<"null">> THEN [kind |-> "resolve", value |-> Null]
  ELSE IF Len(text) = 3 /\ text[1] = "\"" /\ text[3] = "\""
       THEN [kind |-> "resolve", value |-> [kind |-> "data", data |-> text[2]]]
       ELSE [kind |-> "reject", value |-> ErrorValue(<<Lit("SyntaxError")>>)]

\* response.json()
ResponseJson(response) == [how |-> "json", settled |-> JSONParse(response.body.text)]

\* response.text()
ResponseText(response) ==
  [how |-> "text", settled |-> [kind |-> "resolve", value |-> response.body.text]]

\* extractData(response)
extractData(response) ==
  LET contentType == HeadersGet(response.headers, "Content-Type")
  IN IF ~contentType.null /\ contentType.value # <<>> /\ RegexTest(contentType.value)
     THEN ResponseJson(response)
     ELSE ResponseText(response)

\* ---------------------------------------------------------------- inputs

\* The query segments an incoming URL is made of.
Segments ==
  { Segment("index", FALSE, ""), Segment("index", TRUE, "1"),
    Segment("index", TRUE, "2"), Segment("_data", TRUE, "routes%2Fa"),
    Segment("q", TRUE, "a%20b"), Segment("p", FALSE, "") }

Queries == UNION { [1..n -> Segments] : n \in 0..MaxParams }

\* Who calls: the request's method, the matched route, its params and the
\* server's load context.
Callers ==
  { [method |-> "GET", id |-> "routes/index", params |-> <<>>, loadContext |-> "ctx1"],
    [method |-> "POST", id |-> "routes/posts/$id", params |-> <<"id", "7">>,
     loadContext |-> "ctx2"] }

NewResponseValue(response) == [kind |-> "new-response", response |-> response]

OkResponse == NewResponse(Body(<<"<h1>ok</h1>">>), 200, {<<"Content-Type", <<"text/", "html">>>>})

RedirectResponse == NewResponse(NullBody, 302, {<<"Location", <<"/login">>>>})

NotFoundResponse == NewResponse(Body(<<"not found">>), 404, {})

Data == [kind |-> "data", data |-> "d"]

\* What a route's loader or action may do: nothing at all (the module does
\* not export it), return a value, or throw one.
NoHandler == [defined |-> FALSE, mode |-> "return", value |-> Undefined]

Handler(mode, value) == [defined |-> TRUE, mode |-> mode, value |-> value]

Handlers ==
  { NoHandler }
  \cup { Handler("return", v) : v \in { Undefined, Null, Data,
             NewResponseValue(OkResponse), NewResponseValue(RedirectResponse) } }
  \cup { Handler("throw", v) : v \in { Undefined, ErrorValue(<<Lit("boom")>>),
             NewResponseValue(RedirectResponse), NewResponseValue(NotFoundResponse) } }

\* The route modules: a module exports a loader, an action, both or neither.
\* The two calls of one run share nothing but the caller's request, so a
\* module that exports both is drawn with handlers that behave alike.
RouteModules ==
  { [action |-> a, loader |-> l] : a \in Handlers, l \in Handlers } \
  { m \in [action : Handlers, loader : Handlers] :
      m.action.defined /\ m.loader.defined /\ m.action # m.loader }

\* ---------------------------------------------------------------- state

Pending == [kind |-> "pending"]

NotCalled == [pc |-> "start", invocations |-> <<>>,
              settled |-> [mode |-> "pending"], outcome |-> Pending]

NoExtraction == [response |-> 0, result |-> [how |-> "none"]]

Init ==
  \E caller \in Callers, query \in Queries, module \in RouteModules :
    /\ heap = <<[type |-> "Request", method |-> caller.method,
                 url |-> [base |-> "http://localhost/a", query |-> query]]>>
    /\ request = 1
    /\ route = [id |-> caller.id, module |-> module]
    /\ loadContext = caller.loadContext
    /\ params = caller.params
    /\ call = [fn \in {"action", "loader"} |-> NotCalled]
    /\ extraction = NoExtraction

Finish(fn, done) ==
  /\ heap' = done.heap
  /\ call' = [call EXCEPT ![fn].pc = "done", ![fn].outcome = done.outcome]

\* callRouteAction, the route has no action.
CallRouteActionMissing ==
  /\ call.action.pc = "start"
  /\ ~route.module.action.defined
  /\ Finish("action", ActionMissing(heap))
  /\ UNCHANGED <<request, route, loadContext, params, extraction>>

\* callRouteAction up to the await: the action is invoked.
CallRouteActionInvoke ==
  /\ call.action.pc = "start"
  /\ route.module.action.defined
  /\ LET invoked == ActionArgs(heap, request, loadContext, params)
     IN /\ heap' = invoked.heap
        /\ call' = [call EXCEPT !.action.pc = "awaiting",
                                !.action.invocations = Append(@, invoked.args)]
  /\ UNCHANGED <<request, route, loadContext, params, extraction>>

\* callRouteAction after the await: the action has returned or thrown.
CallRouteActionSettle ==
  /\ call.action.pc = "awaiting"
  /\ LET ran == RunHandler(heap, route.module.action)
         done == ActionSettled(ran.heap, ran, route.id)
     IN /\ heap' = done.heap
        /\ call' = [call EXCEPT !.action.pc = "done",
                                !.action.settled = [mode |-> ran.mode, value |-> ran.value],
                                !.action.outcome = done.outcome]
  /\ UNCHANGED <<request, route, loadContext, params, extraction>>

\* callRouteLoader, the route has no loader.
CallRouteLoaderMissing ==
  /\ call.loader.pc = "start"
  /\ ~route.module.loader.defined
  /\ Finish("loader", LoaderMissing(heap, request, route.id))
  /\ UNCHANGED <<request, route, loadContext, params, extraction>>

\* callRouteLoader up to the await: the loader is invoked.
CallRouteLoaderInvoke ==
  /\ call.loader.pc = "start"
  /\ route.module.loader.defined
  /\ LET invoked == LoaderArgs(heap, request, loadContext, params)
     IN /\ heap' = invoked.heap
        /\ call' = [call EXCEPT !.loader.pc = "awaiting",
                                !.loader.invocations = Append(@, invoked.args)]
  /\ UNCHANGED <<request, route, loadContext, params, extraction>>

\* callRouteLoader after the await: the loader has returned or thrown.
CallRouteLoaderSettle ==
  /\ call.loader.pc = "awaiting"
  /\ LET ran == RunHandler(heap, route.module.loader)
         done == LoaderSettled(ran.heap, ran, route.id)
     IN /\ heap' = done.heap
        /\ call' = [call EXCEPT !.loader.pc = "done",
                                !.loader.settled = [mode |-> ran.mode, value |-> ran.value],
                                !.loader.outcome = done.outcome]
  /\ UNCHANGED <<request, route, loadContext, params, extraction>>

Next ==
  \/ CallRouteActionMissing
  \/ CallRouteActionInvoke
  \/ CallRouteActionSettle
  \/ CallRouteLoaderMissing
  \/ CallRouteLoaderInvoke
  \/ CallRouteLoaderSettle

Spec == Init /\ [][Next]_vars

\* ---------------------------------------------------------------- extractData alone

\* The Content-Type values extractData meets, as sequences of chunks.
Chunks == {"application/json", "APPLICATION/JSON", "; charset=utf-8", "p", "-", "text/"}

ContentTypes == UNION { [1..n -> Chunks] : n \in 0..MaxChunks }

Bodies == { Body(<<"null">>), Body(<<"\"", "d", "\"">>), Body(<<"<h1>ok</h1>">>) }

ExtractInit ==
  \E body \in Bodies, status \in {200, 404},
     headers \in { {} } \cup { {<<"Content-Type", c>>} : c \in ContentTypes } :
    /\ heap = <<NewResponse(body, status, headers)>>
    /\ request = 0
    /\ route = [id |-> "routes/index", module |-> [action |-> NoHandler, loader |-> NoHandler]]
    /\ loadContext = "ctx1"
    /\ params = <<>>
    /\ call = [fn \in {"action", "loader"} |-> NotCalled]
    /\ extraction = [response |-> 1, result |-> [how |-> "pending"]]

\* extractData(response) is called on the response.
ExtractData ==
  /\ extraction.result.how = "pending"
  /\ extraction' = [extraction EXCEPT !.result = extractData(heap[extraction.response])]
  /\ UNCHANGED <<heap, request, route, loadContext, params, call>>

ExtractNext == ExtractData

ExtractSpec == ExtractInit /\ [][ExtractNext]_vars

\* ---------------------------------------------------------------- claims

Fns == {"action", "loader"}

\* The call of fn has ended and its handler was defined (so it was awaited).
Ran(fn) == call[fn].pc = "done" /\ route.module[fn].defined

\* The Response object a value refers to.
Deref(value) == heap[value.ref]

CatchHeader(value) == HeadersGet(Deref(value).headers, "X-Remix-Catch")

\* The handler of fn threw a redirect Response.
ThrewRedirect(fn) ==
  /\ call[fn].settled.mode = "throw"
  /\ isResponse(call[fn].settled.value)
  /\ Deref(call[fn].settled.value).status \in {301, 302, 303, 307, 308}

\* C1: a defined handler that returns a value other than undefined makes the
\* call return a Response: the handler's own Response object, untouched, when
\* it returned one, and json(value) for every other value, null included.
C1_ReturnedValueBecomesResponse ==
  \A fn \in Fns :
    (Ran(fn) /\ call[fn].settled.mode = "return" /\ call[fn].settled.value # Undefined) =>
      /\ call[fn].outcome.kind = "return"
      /\ isResponse(call[fn].outcome.value)
      /\ IF route.module[fn].value.kind = "new-response"
         THEN /\ call[fn].outcome.value = call[fn].settled.value
              /\ Deref(call[fn].outcome.value) = route.module[fn].value.response
         ELSE /\ call[fn].settled.value = route.module[fn].value
              /\ Deref(call[fn].outcome.value) = json(route.module[fn].value)

C1_Witness ==
  /\ Ran("action") /\ Ran("loader")
  /\ route.module.action = Handler("return", Null)
  /\ Deref(call.loader.outcome.value).body = Body(<<"null">>)

\* C2: a redirect Response thrown by the handler is returned by the call as
\* its normal result, the same object, and gets no X-Remix-Catch header.
C2_ThrownRedirectIsReturned ==
  \A fn \in Fns :
    (Ran(fn) /\ ThrewRedirect(fn)) =>
      /\ call[fn].outcome = [kind |-> "return", value |-> call[fn].settled.value]
      /\ CatchHeader(call[fn].outcome.value).null
      /\ Deref(call[fn].outcome.value) = route.module[fn].value.response

C2_Witness ==
  /\ Ran("action") /\ Ran("loader")
  /\ ThrewRedirect("action") /\ ThrewRedirect("loader")

\* C3: every other thrown value is rethrown as the same value: unchanged when
\* it is no Response, and with X-Remix-Catch set to "yes" (status and body as
\* they were) when it is a Response that is no redirect.
C3_OtherThrownValuesAreRethrown ==
  \A fn \in Fns :
    (Ran(fn) /\ call[fn].settled.mode = "throw" /\ ~ThrewRedirect(fn)) =>
      /\ call[fn].outcome = [kind |-> "throw", value |-> call[fn].settled.value]
      /\ IF isResponse(call[fn].settled.value)
         THEN /\ CatchHeader(call[fn].outcome.value) = [null |-> FALSE, value |-> <<"yes">>]
              /\ Deref(call[fn].outcome.value).status = route.module[fn].value.response.status
              /\ Deref(call[fn].outcome.value).body = route.module[fn].value.response.body
         ELSE call[fn].outcome.value = route.module[fn].value

C3_Witness ==
  /\ Ran("action") /\ Ran("loader")
  /\ route.module.action = Handler("throw", NewResponseValue(NotFoundResponse))
  /\ call.action.outcome.kind = "throw" /\ call.loader.outcome.kind = "throw"

\* C4: without an action, callRouteAction invokes no handler and returns a
\* Response with status 405, a null body and X-Remix-Catch: yes, whatever the
\* request, the params and the load context.
C4_MissingActionIs405 ==
  ~route.module.action.defined =>
    /\ call.action.invocations = <<>>
    /\ call.action.pc \in {"start", "done"}
    /\ call.action.pc = "done" =>
         /\ call.action.outcome.kind = "return"
         /\ isResponse(call.action.outcome.value)
         /\ Deref(call.action.outcome.value).status = 405
         /\ Deref(call.action.outcome.value).body.null
         /\ CatchHeader(call.action.outcome.value) = [null |-> FALSE, value |-> <<"yes">>]

C4_Witness ==
  /\ ~route.module.action.defined
  /\ call.action.pc = "done"
  /\ heap[request].method = "POST"
  /\ Len(heap[request].url.query) = MaxParams

InSeq(x, seq) == \E i \in 1..Len(seq) : seq[i] = x

\* C5: without a loader, callRouteLoader returns nothing: it throws an Error,
\* no Response and not a 405, whose message names the request's method, the
\* request's URL and the route id.
C5_MissingLoaderThrowsError ==
  ~route.module.loader.defined =>
    /\ call.loader.invocations = <<>>
    /\ call.loader.pc = "done" =>
         /\ call.loader.outcome.kind = "throw"
         /\ call.loader.outcome.value.kind = "error"
         /\ InSeq([method |-> heap[request].method], call.loader.outcome.value.message)
         /\ InSeq([url |-> heap[request].url], call.loader.outcome.value.message)
         /\ InSeq([id |-> route.id], call.loader.outcome.value.message)
         /\ ~isResponse(call.loader.outcome.value)

C5_Witness ==
  /\ ~route.module.loader.defined
  /\ call.loader.pc = "done"
  /\ call.action.pc = "start"
  /\ heap[request].url.query # <<>>

\* The call of fn threw the Error of a handler that returned nothing.
ThrewNothingReturned(fn) ==
  /\ call[fn].outcome.kind = "throw"
  /\ call[fn].outcome.value.kind = "error"
  /\ call[fn].outcome.value.message[1] \in
       {Lit("You defined an action for route \""), Lit("You defined a loader for route \"")}

\* C6: a defined handler that returns undefined makes the call throw an Error
\* naming the route id; a returned null does not, nor does a thrown redirect.
C6_UndefinedResultThrows ==
  \A fn \in Fns :
    Ran(fn) =>
      /\ (call[fn].settled.mode = "return" /\ call[fn].settled.value = Undefined) =>
           /\ ThrewNothingReturned(fn)
           /\ InSeq([id |-> route.id], call[fn].outcome.value.message)
      /\ (call[fn].settled.mode = "return" /\ call[fn].settled.value = Null) =>
           /\ ~ThrewNothingReturned(fn)
           /\ call[fn].outcome.kind = "return"
      /\ ThrewRedirect(fn) =>
           /\ ~ThrewNothingReturned(fn)
           /\ call[fn].outcome.kind = "return"

C6_Witness ==
  /\ Ran("action") /\ Ran("loader")
  /\ route.module.action = Handler("return", Undefined)
  /\ ThrewNothingReturned("action") /\ ThrewNothingReturned("loader")

\* The parameters of the URL of the Request object at ref.
ParamsOf(ref) == ParseQuery(heap[ref].url.query)

IsKeptIndex(pair) == pair[1] = "index" /\ pair[2] # ""

IsOther(pair) == pair[1] # "index" /\ pair[1] # "_data"

\* C7: the URL of the request handed to the handler has no `_data` parameter
\* and no `index` parameter with an empty value; the non-empty `index`
\* parameters and all other parameters keep their values and relative order,
\* the kept `index` parameters coming after the others.
C7_HandlerRequestIsNormalized ==
  \A fn \in Fns : \A i \in 1..Len(call[fn].invocations) :
    LET given == ParamsOf(call[fn].invocations[i].request)
        original == ParamsOf(request)
    IN /\ \A k \in 1..Len(given) : given[k][1] # "_data" /\ given[k] # <<"index", "">>
       /\ SelectSeq(given, IsKeptIndex) = SelectSeq(original, IsKeptIndex)
       /\ SelectSeq(given, IsOther) = SelectSeq(original, IsOther)
       /\ given = SelectSeq(original, IsOther) \o SelectSeq(original, IsKeptIndex)

C7_Witness ==
  /\ call.loader.invocations # <<>>
  /\ ParamsOf(request) = <<<<"index", "1">>, <<"_data", "routes/a">>, <<"q", "a b">>>>
  /\ ParamsOf(call.loader.invocations[1].request) = <<<<"q", "a b">>, <<"index", "1">>>>

\* What a caller can observe of a call's outcome: returned or thrown, and the
\* value, a Response by its content.
Observed(fn) ==
  [kind |-> call[fn].outcome.kind,
   value |-> IF isResponse(call[fn].outcome.value)
             THEN Deref(call[fn].outcome.value)
             ELSE IF ThrewNothingReturned(fn) THEN [kind |-> "error"]
             ELSE call[fn].outcome.value]

\* What the handler of fn was given on its i-th invocation, the request by
\* its content.
Given(fn, i) ==
  [request |-> heap[call[fn].invocations[i].request],
   context |-> call[fn].invocations[i].context,
   params |-> call[fn].invocations[i].params]

\* C8: with both handlers defined and behaving alike, callRouteAction and
\* callRouteLoader give their handler the same request, context and params
\* and end in the same outcome; with both handlers missing they differ.
C8_ActionAndLoaderAgree ==
  /\ (Ran("action") /\ Ran("loader") /\ route.module.action = route.module.loader) =>
       /\ Len(call.action.invocations) = Len(call.loader.invocations)
       /\ \A i \in 1..Len(call.action.invocations) : Given("action", i) = Given("loader", i)
       /\ Observed("action") = Observed("loader")
  /\ ( /\ call.action.pc = "done" /\ call.loader.pc = "done"
       /\ ~route.module.action.defined /\ ~route.module.loader.defined ) =>
       call.action.outcome.kind # call.loader.outcome.kind

C8_Witness ==
  /\ Ran("action") /\ Ran("loader")
  /\ route.module.action = Handler("throw", NewResponseValue(NotFoundResponse))
  /\ call.action.outcome.value # call.loader.outcome.value
  /\ Len(heap[request].url.query) = MaxParams

\* The header value holds application/json as a token of its own: at its
\* start or after a character that is not a word character, and at its end
\* or before such a character.
HasJsonToken(value) ==
  \E i \in 1..Len(value) :
    LET before == SubSeq(value, 1, i - 1)
        after == SubSeq(value, i + 1, Len(value))
    IN /\ value[i] = "application/json"
       /\ before = <<>> \/ before[Len(before)] \in {"-", "text/"}
       /\ after = <<>> \/ after[1] \in {"-", "; charset=utf-8"}

\* C9: extractData decodes the body as JSON exactly when the response has a
\* Content-Type header holding the token application/json, parameters after
\* it or not; every other response, one without Content-Type included, is
\* read as text.
C9_JsonExactlyForJsonContentType ==
  extraction.result.how # "pending" =>
    LET headers == heap[extraction.response].headers
        isJson == \E h \in headers : h[1] = "Content-Type" /\ HasJsonToken(h[2])
    IN /\ extraction.result.how = (IF isJson THEN "json" ELSE "text")
       /\ isJson => extraction.result.settled = JSONParse(heap[extraction.response].body.text)
       /\ ~isJson => extraction.result.settled.value = heap[extraction.response].body.text

C9_Witness ==
  /\ extraction.result.how = "json"
  /\ HeadersGet(heap[extraction.response].headers, "Content-Type").value
       = <<"application/json", "; charset=utf-8">>

\* C10: a call with a defined handler invokes it exactly once, with the
\* caller's load context and params, on a new Request; the caller's Request
\* object is never modified.
C10_Invoked ==
  \A fn \in Fns :
    /\ Len(call[fn].invocations) <= 1
    /\ Ran(fn) => Len(call[fn].invocations) = 1
    /\ \A i \in 1..Len(call[fn].invocations) :
         /\ call[fn].invocations[i].context = loadContext
         /\ call[fn].invocations[i].params = params
         /\ call[fn].invocations[i].request # request
         /\ heap[call[fn].invocations[i].request].type = "Request"

C10_HandlerCalledOnceCallerUntouched ==
  /\ []C10_Invoked
  /\ [][ /\ request' = request
         /\ heap'[request] = heap[request]
         /\ loadContext' = loadContext
         /\ params' = params ]_vars

C10_Witness ==
  /\ Ran("action") /\ Ran("loader")
  /\ \E k \in 1..Len(heap[request].url.query) : heap[request].url.query[k].name = "_data"
  /\ \E k \in 1..Len(heap[request].url.query) :
       heap[request].url.query[k] = Segment("index", FALSE, "")
  /\ ParamsOf(call.action.invocations[1].request) # ParamsOf(request)

====
